---- MODULE Spec2Model ----
(***************************************************************************)
(* eoAPI raster application: subdataset selectors turned into a reader     *)
(* locator (SdsParams, ItemAssetIdParams, CustomReader) or into a reader   *)
(* options mapping (ReaderParams), and the routes that wire them together. *)
(*                                                                         *)
(* A Python str is modelled as a sequence of one-character strings, so     *)
(* that joining, quoting and prefixing are computed character by           *)
(* character.  The token "e_acute" stands for the single non-ASCII         *)
(* character U+00E9.  An Optional value is a record [isNone, val].         *)
(***************************************************************************)
EXTENDS Integers, Sequences, FiniteSets, TLC

\* ---------------------------------------------------------------- bounds
\* longest generated band list
MaxBandLen == 2
\* number of requests in flight in the concurrent specification
NumRequests == 2

\* ------------------------------------------------------------- optionals
None == [isNone |-> TRUE, val |-> <<>>]
Some(v) == [isNone |-> FALSE, val |-> v]
\* Python truthiness of an Optional[str] / Optional[List[int]]
Truthy(o) == ~o.isNone /\ o.val # <<>>

Range(s) == {s[i] : i \in 1..Len(s)}

\* ------------------------------------------------------- string literals
VrtPrefix == <<"v","r","t",":","/","/","/","v","s","i","c","u","r","l","/">>
KeySdName == <<"s","d","_","n","a","m","e">>
KeyBands == <<"b","a","n","d","s">>

\* ---------------------------------------------------------- str(int)
DigitChars == <<"0","1","2","3","4","5","6","7","8","9">>
HexChars == <<"0","1","2","3","4","5","6","7","8","9","A","B","C","D","E","F">>

RECURSIVE NatStr(_)
NatStr(n) ==
    IF n < 10 THEN <<DigitChars[n + 1]>>
    ELSE NatStr(n \div 10) \o <<DigitChars[(n % 10) + 1]>>

\* str(band)
Str(n) == IF n < 0 THEN <<"-">> \o NatStr(0 - n) ELSE NatStr(n)

\* [str(band) for band in subdataset_bands]
StrEach(bands) == [i \in 1..Len(bands) |-> Str(bands[i])]

\* sep.join(parts)
RECURSIVE Join(_, _)
Join(sep, parts) ==
    IF parts = <<>> THEN <<>>
    ELSE IF Len(parts) = 1 THEN parts[1]
    ELSE parts[1] \o sep \o Join(sep, Tail(parts))

\* mutant: ",".join(str(band) for band in sorted(set(subdataset_bands)))
RECURSIVE SortedSet(_)
SortedSet(S) ==
    IF S = {} THEN <<>>
    ELSE LET m == CHOOSE x \in S : \A y \in S : x <= y
         IN <<m>> \o SortedSet(S \ {m})
JoinBandsSorted(bands) == Join(<<",">>, StrEach(SortedSet(Range(bands))))

\* ",".join([str(band) for band in subdataset_bands])
JoinBands(bands) == Join(<<",">>, StrEach(bands))

\* ------------------------------------------- urllib.parse.urlencode
\* characters quote() never escapes (letters, digits, "_.-~")
Letters ==
    {"a","b","c","d","e","f","g","h","i","j","k","l","m","n","o","p","q","r",
     "s","t","u","v","w","x","y","z",
     "A","B","C","D","E","F","G","H","I","J","K","L","M","N","O","P","Q","R",
     "S","T","U","V","W","X","Y","Z"}
AlwaysSafe == Letters \cup Range(DigitChars) \cup {"_", ".", "-", "~"}

\* UTF-8 bytes of the characters that can need escaping
Utf8(c) ==
    CASE c = " " -> <<32>>
      [] c = "%" -> <<37>>
      [] c = "&" -> <<38>>
      [] c = "+" -> <<43>>
      [] c = "," -> <<44>>
      [] c = "/" -> <<47>>
      [] c = ":" -> <<58>>
      [] c = ";" -> <<59>>
      [] c = "=" -> <<61>>
      [] c = "?" -> <<63>>
      [] c = "e_acute" -> <<195, 169>>

PctByte(b) == <<"%", HexChars[(b \div 16) + 1], HexChars[(b % 16) + 1]>>

RECURSIVE PctBytes(_)
PctBytes(bs) == IF bs = <<>> THEN <<>> ELSE PctByte(bs[1]) \o PctBytes(Tail(bs))

\* urllib.parse.quote(s, safe)
RECURSIVE Quote(_, _)
Quote(s, safe) ==
    IF s = <<>> THEN <<>>
    ELSE (IF s[1] \in AlwaysSafe \cup safe THEN <<s[1]>> ELSE PctBytes(Utf8(s[1])))
         \o Quote(Tail(s), safe)

\* urllib.parse.quote_plus(s, safe): a space becomes "+"
QuotePlus(s, safe) ==
    IF " " \in Range(s)
    THEN LET q == Quote(s, safe \cup {" "})
         IN [i \in 1..Len(q) |-> IF q[i] = " " THEN "+" ELSE q[i]]
    ELSE Quote(s, safe)

\* urlencode over the dict's items in insertion order
RECURSIVE UrlencodeItems(_, _)
UrlencodeItems(items, safe) ==
    IF items = <<>> THEN <<>>
    ELSE LET kv == QuotePlus(items[1][1], safe) \o <<"=">> \o QuotePlus(items[1][2], safe)
         IN IF Len(items) = 1 THEN kv
            ELSE kv \o <<"&">> \o UrlencodeItems(Tail(items), safe)

\* mutant: urlencode(vrt_params), safe="," forgotten
UrlencodeNoSafe(vrt_params) == UrlencodeItems(vrt_params, {})

\* urllib.parse.urlencode(vrt_params, safe=",")
Urlencode(vrt_params) == UrlencodeItems(vrt_params, {","})

\* ------------------------------------------------------------ inputs
\* url query parameter / asset urls handed to a reader
Bases ==
    { <<"s","3",":","/","/","b","u","c","k","e","t","/","a",".","t","i","f">>,
      <<"h","t","t","p","s",":","/","/","x","/","a",".","t","i","f">>,
      <<".","/","a",".","t","i","f">> }

\* pystac assets: get_absolute_href() (None when it cannot be resolved) and href
Assets ==
    { [abs |-> Some(<<"h","t","t","p","s",":","/","/","x","/","a",".","t","i","f">>),
       href |-> <<".","/","a",".","t","i","f">>],
      [abs |-> None, href |-> <<".","/","a",".","t","i","f">>],
      [abs |-> None,
       href |-> <<"s","3",":","/","/","b","u","c","k","e","t","/","a",".","t","i","f">>] }

\* subdataset_name query parameter
Names ==
    { None, Some(<<>>), Some(<<"x">>), Some(<<"s","d","1">>), Some(<<"a"," ","b">>),
      Some(<<"a",",","b">>), Some(<<"a","&","b","=","c">>),
      Some(<<"e_acute","?","/">>), Some(<<"~","_",".","-">>), Some(<<"+","%">>) }

\* subdataset_bands query parameter
BandVals == {0, 5, 12, 407, 0 - 3}
RECURSIVE SeqsUpTo(_, _)
SeqsUpTo(S, n) ==
    IF n = 0 THEN {<<>>}
    ELSE LET shorter == SeqsUpTo(S, n - 1)
         IN shorter \cup {Append(s, x) : s \in shorter, x \in S}
BandLists ==
    {None} \cup {Some(b) : b \in SeqsUpTo(BandVals, MaxBandLen)}
           \cup {Some(<<4, 3, 2>>), Some(<<1, 2>>)}

\* the smaller input sets of the concurrent specification
ConcSelectors ==
    { [name |-> Some(<<"a"," ","b">>), bands |-> None],
      [name |-> None, bands |-> Some(<<1, 2>>)],
      [name |-> Some(<<"x">>), bands |-> Some(<<5>>)] }

ConcBases == { <<"s","3",":","/","/","b","u","c","k","e","t","/","a",".","t","i","f">> }
ConcAssets ==
    { [abs |-> Some(<<"h","t","t","p","s",":","/","/","x","/","a",".","t","i","f">>),
       href |-> <<".","/","a",".","t","i","f">>] }

Selectors == {[name |-> n, bands |-> b] : n \in Names, b \in BandLists}

\* ------------------------------------------------- ReaderParams.__init__
\* mutant: the name key is dropped when bands are given
ReaderParamsDropsName(subdataset_name, subdataset_bands) ==
    IF Truthy(subdataset_bands)
    THEN "subdataset_bands" :> subdataset_bands.val
    ELSE IF Truthy(subdataset_name)
         THEN "subdataset_name" :> subdataset_name.val
         ELSE <<>>

\* reader_options: the dict params, keyed by option name
ReaderParams(subdataset_name, subdataset_bands) ==
    (IF Truthy(subdataset_name)
        THEN "subdataset_name" :> subdataset_name.val ELSE <<>>)
    @@ (IF Truthy(subdataset_bands)
        THEN "subdataset_bands" :> subdataset_bands.val ELSE <<>>)

\* ------------------------------------------------------------ SdsParams
\* mutant: "is not None" tests instead of truthiness
SdsParamsNotNone(url, subdataset_name, subdataset_bands) ==
    LET vrt_params ==
            (IF ~subdataset_name.isNone
                THEN << <<KeySdName, subdataset_name.val>> >> ELSE <<>>)
            \o (IF ~subdataset_bands.isNone
                THEN << <<KeyBands, JoinBands(subdataset_bands.val)>> >> ELSE <<>>)
    IN IF vrt_params # <<>>
       THEN VrtPrefix \o url \o <<"?">> \o Urlencode(vrt_params)
       ELSE url

\* mutant: bands inserted into vrt_params before sd_name
SdsParamsBandsFirst(url, subdataset_name, subdataset_bands) ==
    LET vrt_params ==
            (IF Truthy(subdataset_bands)
                THEN << <<KeyBands, JoinBands(subdataset_bands.val)>> >> ELSE <<>>)
            \o (IF Truthy(subdataset_name)
                THEN << <<KeySdName, subdataset_name.val>> >> ELSE <<>>)
    IN IF vrt_params # <<>>
       THEN VrtPrefix \o url \o <<"?">> \o Urlencode(vrt_params)
       ELSE url

\* mutant: the url is always wrapped
SdsParamsAlwaysWraps(url, subdataset_name, subdataset_bands) ==
    LET vrt_params ==
            (IF Truthy(subdataset_name)
                THEN << <<KeySdName, subdataset_name.val>> >> ELSE <<>>)
            \o (IF Truthy(subdataset_bands)
                THEN << <<KeyBands, JoinBands(subdataset_bands.val)>> >> ELSE <<>>)
    IN VrtPrefix \o url \o <<"?">> \o Urlencode(vrt_params)

\* vrt_params is the dict as its items in insertion order
SdsParams(url, subdataset_name, subdataset_bands) ==
    LET vrt_params ==
            (IF Truthy(subdataset_name)
                THEN << <<KeySdName, subdataset_name.val>> >> ELSE <<>>)
            \o (IF Truthy(subdataset_bands)
                THEN << <<KeyBands, JoinBands(subdataset_bands.val)>> >> ELSE <<>>)
    IN IF vrt_params # <<>>
       THEN VrtPrefix \o url \o <<"?">> \o Urlencode(vrt_params)
       ELSE url

\* ---------------------------------------------------- ItemAssetIdParams
\* mutant: asset_info.href or asset_info.get_absolute_href()
AssetUrlHrefFirst(asset_info) ==
    IF asset_info.href # <<>> THEN asset_info.href ELSE asset_info.abs.val

\* url = asset_info.get_absolute_href() or asset_info.href
\* ("or" falls through on None and on an empty string; pystac gives None or
\* a non-empty absolute href)
AssetUrl(asset_info) ==
    IF Truthy(asset_info.abs) THEN asset_info.abs.val ELSE asset_info.href

ItemAssetIdParams(asset_info, subdataset_name, subdataset_bands) ==
    LET url == AssetUrl(asset_info)
        vrt_params ==
            (IF Truthy(subdataset_name)
                THEN << <<KeySdName, subdataset_name.val>> >> ELSE <<>>)
            \o (IF Truthy(subdataset_bands)
                THEN << <<KeyBands, JoinBands(subdataset_bands.val)>> >> ELSE <<>>)
    IN IF vrt_params # <<>>
       THEN VrtPrefix \o url \o <<"?">> \o Urlencode(vrt_params)
       ELSE url

\* ------------------------------------------------------- CustomReader
\* attrs fields filled from the keyword arguments **reader_options
AttrOf(reader_options, key) ==
    IF key \in DOMAIN reader_options THEN Some(reader_options[key]) ELSE None

\* mutant: urlencode(vrt_params) without safe=","
CustomReaderNoSafe(input, reader_options) ==
    LET subdataset_name == AttrOf(reader_options, "subdataset_name")
        subdataset_bands == AttrOf(reader_options, "subdataset_bands")
        vrt_params ==
            (IF Truthy(subdataset_name)
                THEN << <<KeySdName, subdataset_name.val>> >> ELSE <<>>)
            \o (IF Truthy(subdataset_bands)
                THEN << <<KeyBands, JoinBands(subdataset_bands.val)>> >> ELSE <<>>)
    IN IF vrt_params # <<>>
       THEN VrtPrefix \o input \o <<"?">> \o UrlencodeNoSafe(vrt_params)
       ELSE input

\* __attrs_post_init__: the value of self.input afterwards
CustomReaderPostInit(input, reader_options) ==
    LET subdataset_name == AttrOf(reader_options, "subdataset_name")
        subdataset_bands == AttrOf(reader_options, "subdataset_bands")
        vrt_params ==
            (IF Truthy(subdataset_name)
                THEN << <<KeySdName, subdataset_name.val>> >> ELSE <<>>)
            \o (IF Truthy(subdataset_bands)
                THEN << <<KeyBands, JoinBands(subdataset_bands.val)>> >> ELSE <<>>)
    IN IF vrt_params # <<>>
       THEN VrtPrefix \o input \o <<"?">> \o Urlencode(vrt_params)
       ELSE input

\* ------------------------------------------------------------- routes
Routes == {"searches", "collections", "items", "assets", "dataset"}

\* mutant: /dataset also wired with ReaderParams and the CustomReader chain
WiringDatasetCustom(route) ==
    CASE route = "searches" ->
            [path_dependency |-> "SearchIdParams", reader_dependency |-> "ReaderParams",
             reader |-> "PGSTACBackend"]
      [] route = "collections" ->
            [path_dependency |-> "CollectionIdParams", reader_dependency |-> "ReaderParams",
             reader |-> "PGSTACBackend"]
      [] route = "items" ->
            [path_dependency |-> "ItemIdParams", reader_dependency |-> "ReaderParams",
             reader |-> "PgSTACReader"]
      [] route = "assets" ->
            [path_dependency |-> "ItemAssetIdParams",
             reader_dependency |-> "DefaultDependency", reader |-> "Reader"]
      [] route = "dataset" ->
            [path_dependency |-> "SdsParams", reader_dependency |-> "ReaderParams",
             reader |-> "PgSTACReader"]

\* the factories: path_dependency, reader_dependency and reader of each router
Wiring(route) ==
    CASE route = "searches" ->
            [path_dependency |-> "SearchIdParams", reader_dependency |-> "ReaderParams",
             reader |-> "PGSTACBackend"]
      [] route = "collections" ->
            [path_dependency |-> "CollectionIdParams", reader_dependency |-> "ReaderParams",
             reader |-> "PGSTACBackend"]
      [] route = "items" ->
            [path_dependency |-> "ItemIdParams", reader_dependency |-> "ReaderParams",
             reader |-> "PgSTACReader"]
      [] route = "assets" ->
            [path_dependency |-> "ItemAssetIdParams",
             reader_dependency |-> "DefaultDependency", reader |-> "Reader"]
      [] route = "dataset" ->
            [path_dependency |-> "SdsParams", reader_dependency |-> "DefaultDependency",
             reader |-> "Reader"]

\* the reader class that finally opens one asset url:
\* PGSTACBackend -> CustomSTACReader -> CustomReader, PgSTACReader -> CustomReader
AssetReader(reader) ==
    IF reader \in {"PGSTACBackend", "PgSTACReader"} THEN "CustomReader" ELSE "Reader"

\* -------------------------------------------------------------- state
VARIABLES
    pc,              \* where each request is in its dependency chain
    req,             \* the request: route, url / asset, subdataset selectors
    url,             \* what the path dependency returned
    reader_options,  \* ReaderParams.reader_options of the request
    input            \* self.input of the reader opened for the request

vars == <<pc, req, url, reader_options, input>>

Requests == 1..NumRequests

NoAsset == [abs |-> None, href |-> <<>>]
NoRequest ==
    [route |-> "dataset", url |-> <<>>, asset |-> NoAsset,
     subdataset_name |-> None, subdataset_bands |-> None]

Init ==
    /\ pc = [r \in Requests |-> "idle"]
    /\ req = [r \in Requests |-> NoRequest]
    /\ url = [r \in Requests |-> <<>>]
    /\ reader_options = [r \in Requests |-> <<>>]
    /\ input = [r \in Requests |-> <<>>]

\* a request arrives: its path and query parameters are parsed
Receive(r, selectors, bases, assets) ==
    /\ pc[r] = "idle"
    /\ \E route \in Routes, sel \in selectors :
          \/ /\ route = "assets"
             /\ \E a \in assets :
                   req' = [req EXCEPT ![r] =
                              [route |-> route, url |-> <<>>, asset |-> a,
                               subdataset_name |-> sel.name,
                               subdataset_bands |-> sel.bands]]
          \/ /\ route # "assets"
             /\ \E u \in bases :
                   req' = [req EXCEPT ![r] =
                              [route |-> route, url |-> u, asset |-> NoAsset,
                               subdataset_name |-> sel.name,
                               subdataset_bands |-> sel.bands]]
    /\ pc' = [pc EXCEPT ![r] = "path_dependency"]
    /\ UNCHANGED <<url, reader_options, input>>

\* path_dependency=SdsParams
SdsParamsCall(r) ==
    /\ pc[r] = "path_dependency"
    /\ Wiring(req[r].route).path_dependency = "SdsParams"
    /\ url' = [url EXCEPT ![r] =
                  SdsParams(req[r].url, req[r].subdataset_name, req[r].subdataset_bands)]
    /\ pc' = [pc EXCEPT ![r] = "reader_dependency"]
    /\ UNCHANGED <<req, reader_options, input>>

\* path_dependency=ItemAssetIdParams
ItemAssetIdParamsCall(r) ==
    /\ pc[r] = "path_dependency"
    /\ Wiring(req[r].route).path_dependency = "ItemAssetIdParams"
    /\ url' = [url EXCEPT ![r] =
                  ItemAssetIdParams(req[r].asset, req[r].subdataset_name,
                                    req[r].subdataset_bands)]
    /\ pc' = [pc EXCEPT ![r] = "reader_dependency"]
    /\ UNCHANGED <<req, reader_options, input>>

\* path_dependency=SearchIdParams / CollectionIdParams / ItemIdParams: the
\* STAC reader later opens the asset url untouched by the path dependency
IdParamsCall(r) ==
    /\ pc[r] = "path_dependency"
    /\ Wiring(req[r].route).path_dependency
          \in {"SearchIdParams", "CollectionIdParams", "ItemIdParams"}
    /\ url' = [url EXCEPT ![r] = req[r].url]
    /\ pc' = [pc EXCEPT ![r] = "reader_dependency"]
    /\ UNCHANGED <<req, reader_options, input>>

\* mutant: reader_options kept on the class, shared by every instance
ReaderParamsCallShared(r) ==
    /\ pc[r] = "reader_dependency"
    /\ Wiring(req[r].route).reader_dependency = "ReaderParams"
    /\ reader_options' =
          [q \in Requests |->
              ReaderParams(req[r].subdataset_name, req[r].subdataset_bands)]
    /\ pc' = [pc EXCEPT ![r] = "open"]
    /\ UNCHANGED <<req, url, input>>

\* reader_dependency=ReaderParams
ReaderParamsCall(r) ==
    /\ pc[r] = "reader_dependency"
    /\ Wiring(req[r].route).reader_dependency = "ReaderParams"
    /\ reader_options' = [reader_options EXCEPT ![r] =
          ReaderParams(req[r].subdataset_name, req[r].subdataset_bands)]
    /\ pc' = [pc EXCEPT ![r] = "open"]
    /\ UNCHANGED <<req, url, input>>

\* no reader_dependency given to the factory: no reader options
DefaultDependencyCall(r) ==
    /\ pc[r] = "reader_dependency"
    /\ Wiring(req[r].route).reader_dependency = "DefaultDependency"
    /\ pc' = [pc EXCEPT ![r] = "open"]
    /\ UNCHANGED <<req, url, reader_options, input>>

\* CustomReader(url, **reader_options)
CustomReaderInit(r) ==
    /\ pc[r] = "open"
    /\ AssetReader(Wiring(req[r].route).reader) = "CustomReader"
    /\ input' = [input EXCEPT ![r] = CustomReaderPostInit(url[r], reader_options[r])]
    /\ pc' = [pc EXCEPT ![r] = "done"]
    /\ UNCHANGED <<req, url, reader_options>>

\* Reader(url)
ReaderInit(r) ==
    /\ pc[r] = "open"
    /\ AssetReader(Wiring(req[r].route).reader) = "Reader"
    /\ input' = [input EXCEPT ![r] = url[r]]
    /\ pc' = [pc EXCEPT ![r] = "done"]
    /\ UNCHANGED <<req, url, reader_options>>

\* the handler returns: everything built for the request is discarded
Respond(r) ==
    /\ pc[r] = "done"
    /\ pc' = [pc EXCEPT ![r] = "idle"]
    /\ req' = [req EXCEPT ![r] = NoRequest]
    /\ url' = [url EXCEPT ![r] = <<>>]
    /\ reader_options' = [reader_options EXCEPT ![r] = <<>>]
    /\ input' = [input EXCEPT ![r] = <<>>]

Handle(r) ==
    \/ SdsParamsCall(r)
    \/ ItemAssetIdParamsCall(r)
    \/ IdParamsCall(r)
    \/ ReaderParamsCall(r)
    \/ DefaultDependencyCall(r)
    \/ CustomReaderInit(r)
    \/ ReaderInit(r)
    \/ Respond(r)

\* one request at a time, over the full input sets
Next == Receive(1, Selectors, Bases, Assets) \/ Handle(1)

Spec == Init /\ [][Next]_vars

\* NumRequests requests in any interleaving, over the small input sets
NextConc == \E r \in Requests : Receive(r, ConcSelectors, ConcBases, ConcAssets) \/ Handle(r)

SpecConc == Init /\ [][NextConc]_vars

\* ===================================================================
\* Reading a locator back: independent of how the code builds it
\* ===================================================================
StartsWith(s, p) == Len(s) >= Len(p) /\ SubSeq(s, 1, Len(p)) = p
DropFirst(s, n) == SubSeq(s, n + 1, Len(s))

\* s.split(sep) for a one-character separator
RECURSIVE SplitOn(_, _)
SplitOn(s, sep) ==
    IF sep \notin Range(s) THEN <<s>>
    ELSE LET i == CHOOSE k \in 1..Len(s) :
                     s[k] = sep /\ \A j \in 1..(k - 1) : s[j] # sep
         IN <<SubSeq(s, 1, i - 1)>> \o SplitOn(DropFirst(s, i), sep)

\* number of places where p occurs in s
Occurrences(p, s) ==
    Cardinality({i \in 1..Len(s) : i + Len(p) - 1 <= Len(s)
                                   /\ SubSeq(s, i, i + Len(p) - 1) = p})

CountOf(c, s) == Cardinality({i \in 1..Len(s) : s[i] = c})

\* the base locator the request resolves from
BaseOf(q) ==
    IF q.route = "assets"
    THEN (IF q.asset.abs.isNone THEN q.asset.href ELSE q.asset.abs.val)
    ELSE q.url

NameSet(q) == Truthy(q.subdataset_name)
BandsSet(q) == Truthy(q.subdataset_bands)
NameEmpty(q) == ~q.subdataset_name.isNone /\ q.subdataset_name.val = <<>>
BandsEmpty(q) == ~q.subdataset_bands.isNone /\ q.subdataset_bands.val = <<>>

\* the locator is wrapped around the request's base
Wrapped(r) == StartsWith(input[r], VrtPrefix \o BaseOf(req[r]) \o <<"?">>)
\* what follows the "?"
QueryOf(r) ==
    IF Wrapped(r) THEN DropFirst(input[r], Len(VrtPrefix) + Len(BaseOf(req[r])) + 1)
    ELSE <<>>
\* the key=value pairs of the query, each as <<key, value>>
PairsOf(r) ==
    IF ~Wrapped(r) THEN <<>>
    ELSE LET parts == SplitOn(QueryOf(r), "&")
         IN [i \in 1..Len(parts) |->
                LET kv == SplitOn(parts[i], "=")
                IN <<kv[1], IF Len(kv) >= 2 THEN kv[2] ELSE <<>>, Len(kv)>>]
KeysOf(r) == [i \in 1..Len(PairsOf(r)) |-> PairsOf(r)[i][1]]
ValueOf(r, key) ==
    LET i == CHOOSE k \in 1..Len(PairsOf(r)) : PairsOf(r)[k][1] = key
    IN PairsOf(r)[i][2]
ExpectedKeys(q) ==
    (IF NameSet(q) THEN <<KeySdName>> ELSE <<>>)
    \o (IF BandsSet(q) THEN <<KeyBands>> ELSE <<>>)

\* decimal digits read back as an integer
DigitVal(c) == (CHOOSE i \in 1..10 : DigitChars[i] = c) - 1
RECURSIVE NatVal(_)
NatVal(ds) ==
    IF Len(ds) = 1 THEN DigitVal(ds[1])
    ELSE 10 * NatVal(SubSeq(ds, 1, Len(ds) - 1)) + DigitVal(ds[Len(ds)])
IsDecimal(t) ==
    LET ds == IF t # <<>> /\ t[1] = "-" THEN Tail(t) ELSE t
    IN /\ ds # <<>>
       /\ Range(ds) \subseteq Range(DigitChars)
       /\ (Len(ds) = 1 \/ ds[1] # "0")
       /\ ~(t[1] = "-" /\ ds = <<"0">>)
IntVal(t) == IF t[1] = "-" THEN 0 - NatVal(Tail(t)) ELSE NatVal(t)

\* a string as octets: an unreserved character stays itself, any other is its
\* UTF-8 bytes
Raw(c) == [ch |-> c, byte |-> 0 - 1]
Octet(b) == [ch |-> "", byte |-> b]
RECURSIVE OctetsOf(_)
OctetsOf(bs) == IF bs = <<>> THEN <<>> ELSE <<Octet(bs[1])>> \o OctetsOf(Tail(bs))
RECURSIVE Plain(_)
Plain(s) ==
    IF s = <<>> THEN <<>>
    ELSE (IF s[1] \in AlwaysSafe THEN <<Raw(s[1])>> ELSE OctetsOf(Utf8(s[1])))
         \o Plain(Tail(s))
HexVal(c) == (CHOOSE i \in 1..16 : HexChars[i] = c) - 1
\* every "%" is followed by two hexadecimal digits
WellEscaped(v) ==
    \A i \in 1..Len(v) :
        v[i] = "%" => /\ i + 2 <= Len(v)
                      /\ v[i + 1] \in Range(HexChars)
                      /\ v[i + 2] \in Range(HexChars)
\* percent-decoding; plus says whether "+" stands for a space
RECURSIVE Unescape(_, _)
Unescape(v, plus) ==
    IF v = <<>> THEN <<>>
    ELSE IF v[1] = "%"
         THEN <<Octet(16 * HexVal(v[2]) + HexVal(v[3]))>> \o Unescape(DropFirst(v, 3), plus)
         ELSE IF v[1] = "+" /\ plus
              THEN <<Octet(32)>> \o Unescape(Tail(v), plus)
              ELSE Plain(<<v[1]>>) \o Unescape(Tail(v), plus)

\* the characters the claim lets through unescaped
Unreserved == AlwaysSafe \cup {","}

\* ===================================================================
\* Claims
\* ===================================================================
UsesReaderParams(q) == q.route \in {"searches", "collections", "items"}

\* C1: when subdataset_name and subdataset_bands are both absent, the reader
\* opens the base locator unchanged (no vrt prefix, no "?"), and the
\* reader_options mapping is empty.
C1_AbsentSelectorsLeaveBase ==
    \A r \in Requests :
        (pc[r] = "done" /\ req[r].subdataset_name.isNone
                        /\ req[r].subdataset_bands.isNone)
        => /\ input[r] = BaseOf(req[r])
           /\ url[r] = BaseOf(req[r])
           /\ ~StartsWith(input[r], VrtPrefix)
           /\ "?" \notin Range(input[r])
           /\ reader_options[r] = <<>>

C1_Witness ==
    \E r \in Requests :
        /\ pc[r] = "done" /\ req[r].route = "items"
        /\ req[r].subdataset_name.isNone /\ req[r].subdataset_bands.isNone
        /\ input[r] = <<"s","3",":","/","/","b","u","c","k","e","t","/","a",".","t","i","f">>

\* C2: when at least one selector field is set (present and non-empty), the
\* locator is "vrt:///vsicurl/" + base + "?" + query; the query is one
\* key=value pair per set field and nothing else, sd_name before bands, the
\* pairs joined by a single "&"; the sd_name value reads back as the name and
\* the bands value as the band list.  A name of "sd1" with bands [1,2] on
\* "s3://bucket/a.tif" gives "...a.tif?sd_name=sd1&bands=1,2".
C2_LocatorShape ==
    \A r \in Requests :
        (pc[r] = "done" /\ (NameSet(req[r]) \/ BandsSet(req[r])))
        => /\ Wrapped(r)
           /\ KeysOf(r) = ExpectedKeys(req[r])
           /\ CountOf("&", QueryOf(r)) = Len(ExpectedKeys(req[r])) - 1
           /\ \A i \in 1..Len(PairsOf(r)) : PairsOf(r)[i][3] = 2
           /\ NameSet(req[r]) =>
                 /\ WellEscaped(ValueOf(r, KeySdName))
                 /\ Unescape(ValueOf(r, KeySdName), TRUE)
                       = Plain(req[r].subdataset_name.val)
           /\ BandsSet(req[r]) =>
                 LET parts == SplitOn(ValueOf(r, KeyBands), ",")
                 IN /\ \A i \in 1..Len(parts) : IsDecimal(parts[i])
                    /\ [i \in 1..Len(parts) |-> IntVal(parts[i])]
                          = req[r].subdataset_bands.val
           /\ (/\ req[r].subdataset_name = Some(<<"s","d","1">>)
               /\ req[r].subdataset_bands = Some(<<1, 2>>))
              => QueryOf(r) = <<"s","d","_","n","a","m","e","=","s","d","1","&",
                                "b","a","n","d","s","=","1",",","2">>
           /\ (req[r].subdataset_name = Some(<<"x">>) /\ ~BandsSet(req[r]))
              => QueryOf(r) = <<"s","d","_","n","a","m","e","=","x">>

C2_Witness ==
    \E r \in Requests :
        /\ pc[r] = "done" /\ req[r].route = "dataset"
        /\ req[r].subdataset_name = Some(<<"s","d","1">>)
        /\ req[r].subdataset_bands = Some(<<1, 2>>)
        /\ input[r] = VrtPrefix
              \o <<"s","3",":","/","/","b","u","c","k","e","t","/","a",".","t","i","f">>
              \o <<"?","s","d","_","n","a","m","e","=","s","d","1","&",
                   "b","a","n","d","s","=","1",",","2">>

\* C3: for a non-empty band list the bands parameter is the bands in decimal,
\* in the order given (not sorted, duplicates kept), separated by literal
\* commas and by nothing else; [4,3,2] renders as bands=4,3,2.
C3_BandsRendering ==
    \A r \in Requests :
        (pc[r] = "done" /\ BandsSet(req[r]))
        => /\ KeyBands \in Range(KeysOf(r))
           /\ LET v == ValueOf(r, KeyBands)
                  bands == req[r].subdataset_bands.val
                  parts == SplitOn(v, ",")
              IN /\ Range(v) \subseteq Range(DigitChars) \cup {"-", ","}
                 /\ CountOf(",", v) = Len(bands) - 1
                 /\ Len(parts) = Len(bands)
                 /\ \A i \in 1..Len(parts) :
                       IsDecimal(parts[i]) /\ IntVal(parts[i]) = bands[i]
                 /\ bands = <<4, 3, 2>> => v = <<"4",",","3",",","2">>

C3_Witness ==
    \E r \in Requests :
        /\ pc[r] = "done" /\ req[r].subdataset_bands = Some(<<12, 5>>)
        /\ ValueOf(r, KeyBands) = <<"1","2",",","5">>

\* C4: reader_options has exactly one key per set field: subdataset_name
\* maps to the name, subdataset_bands to the band list as integers in the
\* given order; name absent with bands [5] gives {"subdataset_bands": [5]}.
C4_ReaderOptionsKeys ==
    \A r \in Requests :
        (pc[r] \in {"open", "done"} /\ UsesReaderParams(req[r]))
        => LET opts == reader_options[r]
           IN /\ DOMAIN opts
                   = (IF NameSet(req[r]) THEN {"subdataset_name"} ELSE {})
                     \cup (IF BandsSet(req[r]) THEN {"subdataset_bands"} ELSE {})
              /\ NameSet(req[r]) =>
                    opts["subdataset_name"] = req[r].subdataset_name.val
              /\ BandsSet(req[r]) =>
                    /\ opts["subdataset_bands"] = req[r].subdataset_bands.val
                    /\ \A i \in 1..Len(opts["subdataset_bands"]) :
                          opts["subdataset_bands"][i] \in Int

C4_Witness ==
    \E r \in Requests :
        /\ pc[r] = "open" /\ UsesReaderParams(req[r])
        /\ req[r].subdataset_name.isNone
        /\ req[r].subdataset_bands = Some(<<5>>)
        /\ DOMAIN reader_options[r] = {"subdataset_bands"}
        /\ reader_options[r]["subdataset_bands"] = <<5>>

\* C5: ItemAssetIdParams takes the asset's absolute href as the base whenever
\* there is one, and the plain href only when there is none.
C5_AbsoluteHrefFirst ==
    \A r \in Requests :
        (pc[r] \in {"reader_dependency", "open", "done"} /\ req[r].route = "assets")
        => LET a == req[r].asset
               base == IF a.abs.isNone THEN a.href ELSE a.abs.val
           IN IF NameSet(req[r]) \/ BandsSet(req[r])
              THEN StartsWith(url[r], VrtPrefix \o base \o <<"?">>)
              ELSE url[r] = base

C5_Witness ==
    \E r \in Requests :
        /\ pc[r] = "done" /\ req[r].route = "assets"
        /\ req[r].asset.abs = Some(<<"h","t","t","p","s",":","/","/","x","/","a",".","t","i","f">>)
        /\ req[r].asset.href = <<".","/","a",".","t","i","f">>
        /\ input[r] = <<"h","t","t","p","s",":","/","/","x","/","a",".","t","i","f">>

UrlRewritten(r) == StartsWith(input[r], VrtPrefix)
BagBuilt(r) == reader_options[r] # <<>>

\* C6 as stated: a served request with a selector field set takes exactly one
\* encoding path, either the locator is rewritten to a vrt URL or a
\* reader_options bag is built, never both.
C6_ExactlyOnePath ==
    \A r \in Requests :
        (pc[r] = "done" /\ (NameSet(req[r]) \/ BandsSet(req[r])))
        => (UrlRewritten(r) /\ ~BagBuilt(r)) \/ (~UrlRewritten(r) /\ BagBuilt(r))

\* C6 amended: a served request with a selector field set has its locator
\* rewritten to a vrt URL exactly once; on the item-asset and /dataset routes
\* the path dependency rewrites it and no reader_options bag is built, on the
\* searches, collections and items routes ReaderParams builds a non-empty bag
\* and CustomReader rewrites the locator from that bag, in the same request.
C6_RewrittenOnce ==
    \A r \in Requests :
        (pc[r] = "done" /\ (NameSet(req[r]) \/ BandsSet(req[r])))
        => /\ UrlRewritten(r)
           /\ Occurrences(VrtPrefix, input[r]) = 1
           /\ CountOf("?", input[r]) = 1
           /\ BagBuilt(r) <=> req[r].route \in {"searches", "collections", "items"}
           /\ UrlRewritten(r) /\ StartsWith(url[r], VrtPrefix)
                 <=> req[r].route \in {"assets", "dataset"}

C6_Witness ==
    \E r \in Requests :
        /\ pc[r] = "done" /\ req[r].route = "items"
        /\ NameSet(req[r])
        /\ UrlRewritten(r) /\ BagBuilt(r)

\* C7 as stated: in the locator every character of the name other than a
\* letter, a digit, "_", ".", "-", "~" and "," is a %XX escape (the value
\* holds nothing but unreserved characters and escapes, and percent-decodes
\* to the name), and a comma stays a literal ",".
C7_PercentEncodedOnly ==
    \A r \in Requests :
        (pc[r] = "done" /\ NameSet(req[r]))
        => LET v == ValueOf(r, KeySdName)
               name == req[r].subdataset_name.val
           IN /\ Range(v) \subseteq Unreserved \cup {"%"}
              /\ WellEscaped(v)
              /\ Unescape(v, FALSE) = Plain(name)
              /\ CountOf(",", v) = CountOf(",", name)

\* C7 amended: every character of the name other than a letter, a digit,
\* "_", ".", "-", "~" and "," is one %XX escape per UTF-8 byte, except a
\* space, which is a "+"; a comma in the name or in the band list stays a
\* literal ",".
C7_FormEncoded ==
    \A r \in Requests :
        /\ (pc[r] = "done" /\ NameSet(req[r]))
           => LET v == ValueOf(r, KeySdName)
                  name == req[r].subdataset_name.val
              IN /\ Range(v) \subseteq Unreserved \cup {"%", "+"}
                 /\ WellEscaped(v)
                 /\ Unescape(v, TRUE) = Plain(name)
                 /\ CountOf(",", v) = CountOf(",", name)
                 /\ CountOf("+", v) = CountOf(" ", name)
                 /\ CountOf("%", v) * 3 + CountOf("+", v)
                       + Cardinality({i \in 1..Len(name) : name[i] \in Unreserved})
                       = Len(v)
        /\ (pc[r] = "done" /\ BandsSet(req[r]))
           => LET v == ValueOf(r, KeyBands)
              IN /\ "%" \notin Range(v)
                 /\ CountOf(",", v) = Len(req[r].subdataset_bands.val) - 1

C7_Witness ==
    \E r \in Requests :
        /\ pc[r] = "done"
        /\ req[r].subdataset_name = Some(<<"a","&","b","=","c">>)
        /\ req[r].subdataset_bands = Some(<<12, 5>>)
        /\ QueryOf(r) = <<"s","d","_","n","a","m","e","=","a","%","2","6","b","%","3","D","c",
                          "&","b","a","n","d","s","=","1","2",",","5">>

\* C9: the three call sites agree: whichever route served the request, the
\* locator it ends with is what SdsParams gives for the request's base, name
\* and bands, what ItemAssetIdParams gives for an asset resolving to that
\* base, and what a CustomReader opened on that base with the reader_options
\* of ReaderParams gives.
C9_CallSitesAgree ==
    \A r \in Requests :
        pc[r] = "done"
        => LET base == BaseOf(req[r])
               name == req[r].subdataset_name
               bands == req[r].subdataset_bands
           IN /\ input[r] = SdsParams(base, name, bands)
              /\ input[r] = ItemAssetIdParams([abs |-> None, href |-> base], name, bands)
              /\ input[r] = CustomReaderPostInit(base, ReaderParams(name, bands))

C9_Witness ==
    \E r \in Requests :
        /\ pc[r] = "done" /\ req[r].route = "collections"
        /\ req[r].subdataset_name = Some(<<"a",",","b">>)
        /\ req[r].subdataset_bands = Some(<<5, 5>>)
        /\ Wrapped(r)

\* C10: a selector field that is supplied but empty counts as absent: an
\* empty name adds no sd_name pair and no subdataset_name key, an empty band
\* list adds no bands pair and no subdataset_bands key, with every supplied
\* field empty the locator is the base and reader_options is empty; no pair
\* of a resolved locator has an empty value.
C10_EmptyIsAbsent ==
    \A r \in Requests :
        pc[r] = "done"
        => /\ NameEmpty(req[r]) =>
                 /\ KeySdName \notin Range(KeysOf(r))
                 /\ "subdataset_name" \notin DOMAIN reader_options[r]
           /\ BandsEmpty(req[r]) =>
                 /\ KeyBands \notin Range(KeysOf(r))
                 /\ "subdataset_bands" \notin DOMAIN reader_options[r]
           /\ (~NameSet(req[r]) /\ ~BandsSet(req[r])) =>
                 /\ input[r] = BaseOf(req[r])
                 /\ reader_options[r] = <<>>
           /\ (input[r] # BaseOf(req[r])) =>
                 /\ Wrapped(r)
                 /\ \A i \in 1..Len(PairsOf(r)) :
                       PairsOf(r)[i][3] = 2 /\ PairsOf(r)[i][2] # <<>>

C10_Witness ==
    \E r \in Requests :
        /\ pc[r] = "done" /\ req[r].route = "dataset"
        /\ NameEmpty(req[r])
        /\ req[r].subdataset_bands = Some(<<0>>)
        /\ QueryOf(r) = <<"b","a","n","d","s","=","0">>

\* what a request computes from its own parameters alone
OwnUrl(q) ==
    CASE q.route = "dataset" ->
            SdsParams(q.url, q.subdataset_name, q.subdataset_bands)
      [] q.route = "assets" ->
            ItemAssetIdParams(q.asset, q.subdataset_name, q.subdataset_bands)
      [] OTHER -> q.url
OwnOptions(q) ==
    IF UsesReaderParams(q) THEN ReaderParams(q.subdataset_name, q.subdataset_bands)
    ELSE <<>>
OwnInput(q) ==
    IF UsesReaderParams(q) THEN CustomReaderPostInit(OwnUrl(q), OwnOptions(q))
    ELSE OwnUrl(q)
OwnResultsOnly ==
    \A r \in Requests :
        /\ pc[r] \in {"reader_dependency", "open", "done"} => url[r] = OwnUrl(req[r])
        /\ pc[r] \in {"open", "done"} => reader_options[r] = OwnOptions(req[r])
        /\ pc[r] \in {"idle", "path_dependency", "reader_dependency"}
              => reader_options[r] = <<>>
        /\ pc[r] = "done" => input[r] = OwnInput(req[r])
        /\ pc[r] # "done" => input[r] = <<>>
ParametersKept ==
    \A r \in Requests : (pc[r] # "idle" /\ pc'[r] # "idle") => req'[r] = req[r]
\* C8: with requests served in any interleaving, what each request has
\* computed so far (path dependency result, reader_options, locator) is what
\* its own route, base, name and bands give, whatever the other requests
\* carry; and no step of a request changes the request's own parameters, the
\* band list among them.
C8_Stateless == []OwnResultsOnly /\ [][ParametersKept]_vars

C8_Witness ==
    \E r1, r2 \in Requests :
        /\ r1 # r2
        /\ pc[r1] = "open" /\ pc[r2] = "done"
        /\ req[r1].route = "items" /\ req[r2].route = "collections"
        /\ req[r1].subdataset_bands = Some(<<1, 2>>)
        /\ req[r2].subdataset_name = Some(<<"a"," ","b">>)
        /\ reader_options[r1] # reader_options[r2]

====
